---- MODULE Spec2Model ----
(***************************************************************************)
(* Model of @bldbl/mcp: the BuildableMCPClient (client.ts), the CLI's      *)
(* BuildableMCPServer (cli.ts) and the package entry points (index.ts).    *)
(*                                                                         *)
(* An optional JavaScript value is a sequence of length at most one:       *)
(* Absent (undefined) is <<>>, a present value v is <<v>>.  A string that  *)
(* the code builds from a template is the tuple of its parts.              *)
(*                                                                         *)
(* Every await of the code is a step boundary: an action runs a handler or *)
(* a method from one await to the next.  The backend is free to answer any *)
(* request with any of Answers.  Left out: logging (log() is a no-op),     *)
(* timestamps, the request timeout value, and the SIGINT / SIGTERM         *)
(* handlers.                                                               *)
(***************************************************************************)
EXTENDS Integers, Sequences, FiniteSets, TLC

\* ------------------------------------------------------------------ bounds

\* Number of invocations of the server that may be in flight together.
MaxInFlight == 1
\* Number of distinct task ids a caller may name.
MaxTasks == 2

\* --------------------------------------------------------- optional values

Absent == <<>>
Some(v) == <<v>>

\* JavaScript truthiness of an optional string: undefined and "" are falsy.
Truthy(o) == o # Absent /\ o[1] # ""

\* a || b on optional strings
OrElse(a, b) == IF Truthy(a) THEN a ELSE b

\* a || n on an optional number: undefined and 0 are falsy
OrElseNum(a, n) == IF a # Absent /\ a[1] # 0 THEN a[1] ELSE n

\* ------------------------------------------------------------ environment

\* Values of BUILDABLE_API_KEY / BUILDABLE_PROJECT_ID / BUILDABLE_AI_ASSISTANT_ID
\* (an unset variable and an empty one are both falsy for the code's ||).
EnvApiKeys == {Absent, Some("k")}
EnvProjectIds == {Absent, Some("p")}
EnvAssistantIds == {Absent, Some("a1")}

\* uuidv4().substring(0, 8): a random value, one of these.
Uuids == {"u1", "u2"}

TaskIds == {<<"t", i>> : i \in 1..MaxTasks}

\* How the process uses the package: the CLI (cli.ts main), a script that
\* calls setupBuildable, or one that calls createBuildableClient itself.
Entries == {"cli", "setup", "create"}

ToolNames ==
  {"get_project_context", "get_next_task", "start_task", "update_progress",
   "complete_task", "create_discussion", "health_check"}

\* Public methods of the Client that no tool is bound to.
DirectMethods == {"connect", "disconnect", "getConnectionStatus"}

\* ------------------------------------------------------------- the client

NoClient ==
  [set |-> FALSE, apiUrl |-> "", apiKey |-> "", projectId |-> "",
   aiAssistantId |-> <<>>, retryAttempts |-> 0, retryDelay |-> 0,
   headers |-> [Authorization |-> <<>>, XAIAssistantID |-> <<>>,
                ContentType |-> "", UserAgent |-> ""]]

\* A BuildableConfig: apiKey and projectId are strings ("" when empty),
\* aiAssistantId is optional.
Config(apiUrl, apiKey, projectId, aiAssistantId) ==
  [apiUrl |-> apiUrl, apiKey |-> apiKey, projectId |-> projectId,
   aiAssistantId |-> aiAssistantId]

\* config.aiAssistantId || `ai_${uuidv4().substring(0, 8)}`
AssistantIdOf(config, uuid) ==
  IF Truthy(config.aiAssistantId) THEN <<config.aiAssistantId[1]>>
  ELSE <<"ai_", uuid>>

\* The header taken from config.aiAssistantId instead of the derived id.
DefaultHeaders_ConfigId(config, aid) ==
  [Authorization |-> <<"Bearer ", config.apiKey>>,
   XAIAssistantID |-> config.aiAssistantId,
   ContentType |-> "application/json",
   UserAgent |-> "@bldbl/mcp/1.0.0"]

\* The headers given to axios.create
DefaultHeaders(config, aid) ==
  [Authorization |-> <<"Bearer ", config.apiKey>>,
   XAIAssistantID |-> aid,
   ContentType |-> "application/json",
   UserAgent |-> "@bldbl/mcp/1.0.0"]

\* ClientOptions: retryAttempts and retryDelay, each optional (logLevel and
\* enableRealTimeUpdates only feed log(), which is left out).
NoOptions == [retryAttempts |-> Absent, retryDelay |-> Absent]

\* The options a script may construct its Client with.
ClientOptionSets ==
  {NoOptions,
   [retryAttempts |-> Some(0), retryDelay |-> Some(0)],
   [retryAttempts |-> Some(5), retryDelay |-> Some(10)]}

\* new BuildableMCPClient(config, options): no field of config is checked;
\* the options are the defaults { retryAttempts: 3, retryDelay: 1000 }
\* overridden by the ones given.
NewClient(config, options, uuid) ==
  LET aid == AssistantIdOf(config, uuid) IN
  [set |-> TRUE, apiUrl |-> config.apiUrl, apiKey |-> config.apiKey,
   projectId |-> config.projectId, aiAssistantId |-> aid,
   retryAttempts |-> IF options.retryAttempts # Absent
                     THEN options.retryAttempts[1] ELSE 3,
   retryDelay |-> IF options.retryDelay # Absent
                  THEN options.retryDelay[1] ELSE 1000,
   headers |-> DefaultHeaders(config, aid)]

createBuildableClient(config, options, uuid) ==
  NewClient(config, options, uuid)

\* index.ts setupBuildable: defaults for apiUrl and aiAssistantId, no check.
setupBuildable(apiKey, projectId, aiAssistantId, uuid) ==
  createBuildableClient(
    Config("https://bldbl.dev/api", apiKey, projectId,
           OrElse(aiAssistantId, Some("buildable-client"))),
    NoOptions, uuid)

\* process.env.X || ''
EnvOr(v, d) == IF Truthy(v) THEN v[1] ELSE d

\* ----------------------------------------------------- backend's answers

\* A response body as the code reads it: present is FALSE for a missing or
\* empty body (response.data falsy); error, message and task are the fields
\* the code looks at.
Body(present, error, message, task) ==
  [present |-> present, error |-> error, message |-> message, task |-> task]

NoBody == Body(FALSE, Absent, Absent, Absent)

\* 2xx answers: a body with a task, one without, and an empty body.
OkAnswers ==
  {[kind |-> "ok", status |-> 200, body |-> b] :
     b \in {Body(TRUE, Absent, Absent, Some("task")),
            Body(TRUE, Absent, Some("No tasks available"), Absent),
            NoBody}}

\* Failures: non-2xx answers with the bodies a backend may send, and a
\* network failure (no response at all).
HttpFailures ==
  {[kind |-> "http", status |-> 401,
    body |-> Body(TRUE, Some("invalid key"), Absent, Absent)],
   [kind |-> "http", status |-> 400,
    body |-> Body(TRUE, Some(""), Some("bad request"), Absent)],
   [kind |-> "http", status |-> 404,
    body |-> Body(TRUE, Absent, Some("not found"), Absent)],
   [kind |-> "http", status |-> 500,
    body |-> Body(TRUE, Some("boom"), Some("server error"), Absent)],
   [kind |-> "http", status |-> 502, body |-> NoBody]}

NetworkFailures == {[kind |-> "network", status |-> 0, body |-> NoBody]}

Failures == HttpFailures \cup NetworkFailures

Answers == OkAnswers \cup Failures

IsOk(ans) == ans.kind = "ok"

\* AxiosError.message for a failed request
TransportMessage(ans) ==
  CASE ans.kind = "network" -> "Network Error"
    [] ans.status = 400 -> "Request failed with status code 400"
    [] ans.status = 401 -> "Request failed with status code 401"
    [] ans.status = 404 -> "Request failed with status code 404"
    [] ans.status = 500 -> "Request failed with status code 500"
    [] OTHER -> "Request failed with status code 502"

\* ------------------------------------------------------ error handling

\* The value an operation ends with.  status is "none" while it runs,
\* "returned" or "raised" after; type names what was raised.
NoResult ==
  [status |-> "none", type |-> "", error |-> "", data |-> NoBody,
   connection |-> ""]
Returned(data) ==
  [status |-> "returned", type |-> "", error |-> "", data |-> data,
   connection |-> ""]
Raised(type, error) ==
  [status |-> "raised", type |-> type, error |-> error, data |-> NoBody,
   connection |-> ""]

\* formatError with the body's message preferred to its error.
FormatErrorText_MessageFirst(ans) ==
  LET base == OrElse(Some(TransportMessage(ans)), Some("Unknown API error")) IN
  IF ans.kind = "http" /\ ans.body.present
  THEN OrElse(ans.body.message, OrElse(ans.body.error, base))[1]
  ELSE base[1]

\* formatError: error.message || 'Unknown API error', replaced by
\* data.error || data.message || that when the response has a body.
\* (code, details and timestamp of the APIError are not modelled.)
FormatErrorText(ans) ==
  LET base == OrElse(Some(TransportMessage(ans)), Some("Unknown API error")) IN
  IF ans.kind = "http" /\ ans.body.present
  THEN OrElse(ans.body.error, OrElse(ans.body.message, base))[1]
  ELSE base[1]

formatError(ans) == Raised("APIError", FormatErrorText(ans))

\* The response interceptor's error handler: Promise.reject(formatError(e)).
Intercept(ans) == formatError(ans)

\* ------------------------------------------------------------- arguments

\* Every argument a tool schema or a Client method names; Absent when the
\* caller leaves it out.
BlankArgs ==
  [task_id |-> Absent, approach |-> Absent, estimated_duration |-> Absent,
   notes |-> Absent, progress |-> Absent, status_update |-> Absent,
   completed_steps |-> Absent, current_step |-> Absent,
   challenges |-> Absent, files_modified |-> Absent, time_spent |-> Absent,
   completion_notes |-> Absent, testing_completed |-> Absent,
   documentation_updated |-> Absent, title |-> Absent, content |-> Absent,
   urgency |-> Absent, tags |-> Absent]

\* Progress percentages a caller may give: the two bounds, and a value
\* outside the range on each side.
ProgressValues == {-1, 0, 100, 150}

Urgencies == {"low", "medium", "high"}

\* The arguments the callers of this model give to each tool.
ToolArgs(tool) ==
  CASE tool = "start_task" ->
         {[BlankArgs EXCEPT !.task_id = Some(t), !.approach = Some("tdd")] :
            t \in TaskIds}
    [] tool = "update_progress" ->
         {[BlankArgs EXCEPT !.task_id = Some(t), !.progress = Some(p),
                            !.status_update = Some("halfway")] :
            t \in TaskIds, p \in ProgressValues}
    [] tool = "complete_task" ->
         {[BlankArgs EXCEPT !.task_id = Some(t),
                            !.completion_notes = Some("done"),
                            !.testing_completed = Some(TRUE)] :
            t \in TaskIds}
    [] tool = "create_discussion" ->
         {[BlankArgs EXCEPT !.title = Some("q"), !.content = Some("why"),
                            !.urgency = u] :
            u \in {Absent} \cup {Some(v) : v \in Urgencies}}
    [] OTHER -> {BlankArgs}

\* The schemas without .min(0).max(100) on progress.
Validate_NoRange(tool, a) ==
  CASE tool = "start_task" -> a.task_id # Absent
    [] tool = "update_progress" ->
         a.task_id # Absent /\ a.progress # Absent /\ a.status_update # Absent
    [] tool = "complete_task" ->
         a.task_id # Absent /\ a.completion_notes # Absent
    [] OTHER -> TRUE

\* The zod schema of each tool (cli.ts): required fields, the range of
\* progress, the values of urgency.
Validate(tool, a) ==
  CASE tool = "start_task" -> a.task_id # Absent
    [] tool = "update_progress" ->
         /\ a.task_id # Absent
         /\ a.progress # Absent
         /\ a.progress[1] >= 0
         /\ a.progress[1] <= 100
         /\ a.status_update # Absent
    [] tool = "complete_task" ->
         a.task_id # Absent /\ a.completion_notes # Absent
    [] tool = "create_discussion" ->
         /\ a.title # Absent
         /\ a.content # Absent
         /\ (a.urgency = Absent \/ a.urgency[1] \in Urgencies)
    [] OTHER -> TRUE

\* The Client method each tool's handler calls.
ToolMethod(tool) ==
  CASE tool = "get_project_context" -> "getProjectContext"
    [] tool = "get_next_task" -> "getNextTask"
    [] tool = "start_task" -> "startTask"
    [] tool = "update_progress" -> "updateProgress"
    [] tool = "complete_task" -> "completeTask"
    [] tool = "create_discussion" -> "createDiscussion"
    [] OTHER -> "healthCheck"

PrimaryMethods == {ToolMethod(t) : t \in ToolNames}

\* The arguments each handler passes to its Client method: complete_task
\* fills its optional arguments in (x || [], x || false, x || 0),
\* create_discussion passes title, content and urgency only, the others
\* pass theirs on.
HandlerArgs(tool, a) ==
  IF tool = "complete_task"
  THEN [a EXCEPT
          !.files_modified = IF a.files_modified = Absent THEN Some(<<>>)
                             ELSE a.files_modified,
          !.testing_completed =
             Some(a.testing_completed = Some(TRUE)),
          !.documentation_updated =
             Some(a.documentation_updated = Some(TRUE)),
          !.time_spent = Some(OrElseNum(a.time_spent, 0))]
  ELSE IF tool = "create_discussion"
  THEN [a EXCEPT !.tags = Absent]
  ELSE a

\* What a script that holds the Client passes to its methods: the same
\* values, and nothing validates them.
MethodArgs(method) ==
  IF method \in PrimaryMethods
  THEN UNION {{HandlerArgs(t, a) : a \in ToolArgs(t)} :
                t \in {t \in ToolNames : ToolMethod(t) = method}}
  ELSE {BlankArgs}

\* --------------------------------------------------------------- requests

\* A heartbeat posted through the global axios instead of the instance:
\* it carries none of the instance's headers.
Req_HeartbeatBare(cl, kind, method, url, body) ==
  [kind |-> kind, method |-> method, url |-> url, body |-> body,
   headers |-> IF kind = "heartbeat" THEN NoClient.headers ELSE cl.headers,
   state |-> "pending"]

\* A request issued through the Client's axios instance: it carries the
\* instance's headers.  state is "pending" until the answer arrives.
Req(cl, kind, method, url, body) ==
  [kind |-> kind, method |-> method, url |-> url, body |-> body,
   headers |-> cl.headers, state |-> "pending"]

NoData == [none |-> TRUE]

\* context.urgency: discussion.context?.urgency || 'medium'
ContextUrgency(a) == OrElse(a.urgency, Some("medium"))

\* The top-level urgency sent as given, without the default.
DiscussionUrgency_NoDefault(a) == a.urgency

\* urgency: discussion.context?.urgency || 'medium'
DiscussionUrgency(a) == OrElse(a.urgency, Some("medium"))

\* updateProgress's body with files_created read from a field the
\* ProgressUpdate does not have.
ProgressBody_NoFilesCreated(a) ==
  [completion_percentage |-> a.progress,
   files_created |-> Absent,
   files_modified |-> a.files_modified,
   notes |-> a.notes,
   blockers |-> a.challenges,
   time_spent_minutes |-> a.time_spent,
   current_step |-> a.current_step,
   completed_steps |-> a.completed_steps]

\* updateProgress's body with the status update standing in for missing
\* notes.
ProgressBody_StatusAsNotes(a) ==
  [completion_percentage |-> a.progress,
   files_created |-> a.files_modified,
   files_modified |-> a.files_modified,
   notes |-> OrElse(a.notes, a.status_update),
   blockers |-> a.challenges,
   time_spent_minutes |-> a.time_spent,
   current_step |-> a.current_step,
   completed_steps |-> a.completed_steps]

\* The body updateProgress posts.
ProgressBody(a) ==
  [completion_percentage |-> a.progress,
   files_created |-> a.files_modified,
   files_modified |-> a.files_modified,
   notes |-> a.notes,
   blockers |-> a.challenges,
   time_spent_minutes |-> a.time_spent,
   current_step |-> a.current_step,
   completed_steps |-> a.completed_steps]

\* completeTask's body with the evidence set whenever testing_completed
\* has a value, true or false.
CompleteBody_EvidenceIfDefined(a) ==
  [files_created |-> a.files_modified,
   files_modified |-> a.files_modified,
   completion_notes |-> a.completion_notes,
   time_spent_minutes |-> a.time_spent,
   verification_evidence |->
     IF a.testing_completed # Absent THEN Some("Tests passed") ELSE Absent]

\* The body completeTask posts: verification_evidence is
\* completion.testing_completed ? 'Tests passed' : undefined.
CompleteBody(a) ==
  [files_created |-> a.files_modified,
   files_modified |-> a.files_modified,
   completion_notes |-> a.completion_notes,
   time_spent_minutes |-> a.time_spent,
   verification_evidence |->
     IF a.testing_completed = Some(TRUE)
     THEN Some("Tests passed") ELSE Absent]

\* The method, path and body of each operation's makeRequest call.
PrimaryRequest(cl, m, a) ==
  CASE m = "getProjectContext" ->
         Req(cl, "primary", "GET",
             <<"/projects/", cl.projectId, "/context">>, NoData)
    [] m = "getNextTask" ->
         Req(cl, "primary", "GET",
             <<"/projects/", cl.projectId, "/next-task">>, NoData)
    [] m = "startTask" ->
         Req(cl, "primary", "POST", <<"/tasks/", a.task_id, "/start">>,
             [ai_assistant_id |-> cl.aiAssistantId,
              estimated_time_minutes |-> a.estimated_duration,
              notes |-> a.notes,
              approach |-> a.approach])
    [] m = "updateProgress" ->
         Req(cl, "primary", "POST", <<"/tasks/", a.task_id, "/progress">>,
             ProgressBody(a))
    [] m = "completeTask" ->
         Req(cl, "primary", "POST", <<"/tasks/", a.task_id, "/complete">>,
             CompleteBody(a))
    [] m = "createDiscussion" ->
         Req(cl, "primary", "POST",
             <<"/projects/", cl.projectId, "/discuss">>,
             [type |-> "question",
              title |-> a.title,
              message |-> a.content,
              context |-> [task_id |-> Absent, relevant_files |-> Absent,
                           specific_challenge |-> Absent,
                           urgency |-> ContextUrgency(a)],
              urgency |-> DiscussionUrgency(a),
              requires_human_response |-> TRUE,
              created_by |-> cl.aiAssistantId])
    [] OTHER -> Req(cl, "primary", "GET", <<"/health">>, NoData)

\* updateConnectionStatus's post (metadata.last_activity, a timestamp, is
\* left out).
HeartbeatRequest(cl, status, currentTaskId) ==
  Req(cl, "heartbeat", "POST", <<"/internal/ai-connections">>,
      [ai_assistant_id |-> cl.aiAssistantId,
       status |-> status,
       current_task_id |-> currentTaskId,
       metadata |-> [client_version |-> "1.0.0",
                     capabilities |-> <<"task_management",
                                        "progress_tracking",
                                        "discussions">>]])

\* getConnectionStatus's axios.get
LookupRequest(cl) ==
  Req(cl, "lookup", "GET",
      <<"/projects/", cl.projectId, "/ai-connections">>, NoData)

\* The operations that post a heartbeat after their primary request.
HasHeartbeat(m) == m \in {"startTask", "updateProgress", "completeTask"}

\* completeTask leaving the connection "working".
HeartbeatStatus_StillWorking(m) ==
  CASE m \in {"startTask", "updateProgress", "completeTask"} -> "working"
    [] m = "disconnect" -> "disconnected"
    [] OTHER -> "connected"

\* The status and task each operation gives updateConnectionStatus.
HeartbeatStatus(m) ==
  CASE m \in {"startTask", "updateProgress"} -> "working"
    [] m = "disconnect" -> "disconnected"
    [] OTHER -> "connected"

\* updateConnectionStatus called without the task id.
HeartbeatTask_Dropped(m, a) == Absent

HeartbeatTask(m, a) ==
  IF m \in {"startTask", "updateProgress"} THEN a.task_id ELSE Absent

HeartbeatOf(cl, m, a) ==
  HeartbeatRequest(cl, HeartbeatStatus(m), HeartbeatTask(m, a))

\* The request a method issues first.
FirstRequest(cl, m, a) ==
  CASE m \in PrimaryMethods -> PrimaryRequest(cl, m, a)
    [] m = "getConnectionStatus" -> LookupRequest(cl)
    [] OTHER -> HeartbeatOf(cl, m, a)

\* The last request of a log, answered.
Settle(reqs, ans) ==
  [reqs EXCEPT ![Len(reqs)].state = IF IsOk(ans) THEN "ok" ELSE "failed"]

\* ------------------------------------------------- the Client's methods

\* The MCPResponse makeRequest builds from a 2xx answer:
\* { success: true, data: response.data, timestamp }.  data is optional in
\* MCPResponse; an empty body leaves it without a value.
Envelope(ans) ==
  [success |-> TRUE,
   data |-> IF ans.body.present THEN Some(ans.body) ELSE Absent]

\* makeRequest that catches the failure and returns an empty envelope.
makeRequest_Swallows(ans) ==
  IF IsOk(ans) THEN Returned(ans.body) ELSE Returned(NoBody)

\* makeRequest: the body of a 2xx answer, or the interceptor's rejection
\* thrown on.
makeRequest(ans) ==
  IF IsOk(ans) THEN Returned(ans.body) ELSE Intercept(ans)

\* makeRequest wrapped in a loop that tries again while fewer than
\* options.retryAttempts requests were made.
ShouldRetry_Loop(cl, reqs) == Len(reqs) < cl.retryAttempts

\* makeRequest's catch: the failure is logged and thrown at once; nothing
\* reads options.retryAttempts or options.retryDelay.
ShouldRetry(cl, reqs) == FALSE

\* getNextTask treating a body without a task as a failure.
OperationResult_NoTaskThrows(m, data) ==
  IF m = "getNextTask" /\ data.task = Absent
  THEN Raised("Error", "No tasks available")
  ELSE Returned(data)

\* The end of an operation without a heartbeat: return response.data.
\* getNextTask looks at response.data?.task only to choose what it logs.
OperationResult(m, data) == Returned(data)

\* startTask deriving a new assistant id for the task it starts.
ClientAfter_NewIdPerTask(cl, m, a) ==
  IF m = "startTask" THEN [cl EXCEPT !.aiAssistantId = <<"ai_", "u2">>]
  ELSE cl

\* The Client after an operation ran: no method assigns this.config,
\* this.options, this.aiAssistantId or the axios instance's defaults.
ClientAfter(cl, m, a) == cl

\* updateConnectionStatus without its try/catch.
updateConnectionStatus_Throws(ans) ==
  IF IsOk(ans) THEN Returned(NoBody) ELSE Intercept(ans)

\* updateConnectionStatus: the post's failure is caught and logged.
updateConnectionStatus(ans) == Returned(NoBody)

\* updateConnectionStatus called without await.
AwaitsHeartbeat_Not == FALSE

\* The await of updateConnectionStatus in startTask, updateProgress and
\* completeTask: the operation goes on when the post has settled.
AwaitsHeartbeat == TRUE

\* An operation's catch block: the error is logged and thrown again.
Rethrow(err) == err

\* The end of startTask / updateProgress / completeTask after the
\* heartbeat: return response.data, unless the awaited call threw.
AfterHeartbeat(data, hbResult) ==
  IF hbResult.status = "raised" THEN Rethrow(hbResult) ELSE Returned(data)

\* connect / disconnect that let the post's failure through.
connectResult_Propagates(ans) ==
  IF IsOk(ans) THEN Returned(NoBody) ELSE Intercept(ans)

\* connect / disconnect: await updateConnectionStatus in a try block whose
\* catch only logs a warning; the method returns nothing either way.
connectResult(ans) ==
  LET hbResult == updateConnectionStatus(ans)
      caught == Returned(NoBody)
  IN IF hbResult.status = "raised" THEN caught ELSE Returned(hbResult.data)

\* getConnectionStatus: the listed connection, 'disconnected' when not
\* listed, 'unknown' when the lookup failed.
lookupResult(ans, listed) ==
  [Returned(NoBody) EXCEPT !.connection =
     IF ~IsOk(ans) THEN "unknown"
     ELSE IF listed THEN "working" ELSE "disconnected"]

\* ------------------------------------------------------ the dispatcher

NoToolResult == [isError |-> FALSE, message |-> "", content |-> Absent]

\* What the tool's caller gets: the handler's value as one JSON text, or
\* a failed result when the handler (or the schema) threw.
ToolResult(result) ==
  IF result.status = "raised"
  THEN [isError |-> TRUE, message |-> result.error, content |-> Absent]
  ELSE [isError |-> FALSE, message |-> "",
        content |-> Some(<<"JSON.stringify", result.data>>)]

\* One invocation: of a tool (via = "tool") or of a Client method by a
\* script that holds the Client (via = "api").  envelope is what makeRequest
\* returned to the method, if it returned.
IdleCall ==
  [pc |-> "idle", via |-> "", tool |-> "", method |-> "",
   args |-> BlankArgs, margs |-> BlankArgs, reqs |-> <<>>,
   answer |-> [kind |-> "none", status |-> 0, body |-> NoBody],
   envelope |-> Absent,
   result |-> NoResult, toolResult |-> NoToolResult]

\* An invocation ends: the method returned or threw.
Finish(c, result) ==
  [c EXCEPT !.pc = "done", !.result = result,
            !.toolResult = IF c.via = "tool" THEN ToolResult(result)
                           ELSE NoToolResult]

\* A Client method runs up to its first await.
StartMethod(cl, c, m, ma) ==
  [c EXCEPT !.method = m, !.margs = ma,
            !.pc = CASE m \in PrimaryMethods -> "primary"
                     [] m = "getConnectionStatus" -> "lookup"
                     [] OTHER -> "heartbeat",
            !.reqs = <<FirstRequest(cl, m, ma)>>]

NotConnected == Raised("Error", "Not connected to Buildable API")

\* A handler without its guard: the call on the null client throws a
\* TypeError instead.
ToolHandler_NoGuard(cl, c, tool, a) ==
  IF ~cl.set
  THEN Finish(c, Raised("TypeError", "Cannot read properties of null"))
  ELSE StartMethod(cl, c, ToolMethod(tool), HandlerArgs(tool, a))

\* A tool's handler: if (!this.client) throw, else call the method.
ToolHandler(cl, c, tool, a) ==
  IF ~cl.set THEN Finish(c, NotConnected)
  ELSE StartMethod(cl, c, ToolMethod(tool), HandlerArgs(tool, a))

\* A tool invocation: the schema is checked before the handler runs.
InvokeTool(cl, tool, a) ==
  LET c == [IdleCall EXCEPT !.via = "tool", !.tool = tool, !.args = a] IN
  IF ~Validate(tool, a)
  THEN Finish(c, Raised("ValidationError", "Invalid arguments"))
  ELSE ToolHandler(cl, c, tool, a)

\* A script calls a method of the Client it holds.
CallMethod(cl, m, ma) ==
  StartMethod(cl, [IdleCall EXCEPT !.via = "api", !.args = ma], m, ma)

\* ---------------------------------------------------------------- startup

\* initialize(): the config read from the environment.
InitializeConfig(e) ==
  Config("https://bldbl.dev/api", EnvOr(e.apiKey, ""),
         EnvOr(e.projectId, ""), Some(EnvOr(e.aiAssistantId, "cursor-ide")))

\* initialize() checking the API key only.
ConfigError_KeyOnly(config) ==
  IF config.apiKey = ""
  THEN Some("BUILDABLE_API_KEY environment variable is required")
  ELSE Absent

\* initialize() checking the project id only.
ConfigError_ProjectOnly(config) ==
  IF config.projectId = ""
  THEN Some("BUILDABLE_PROJECT_ID environment variable is required")
  ELSE Absent

\* initialize(): the required values; the message of the error thrown.
ConfigError(config) ==
  IF config.apiKey = ""
  THEN Some("BUILDABLE_API_KEY environment variable is required")
  ELSE IF config.projectId = ""
  THEN Some("BUILDABLE_PROJECT_ID environment variable is required")
  ELSE Absent

\* initialize() without its try/catch.
initializeResult_Rethrows(r) == r

\* initialize()'s try/catch around healthCheck and connect: a failure is
\* logged as a warning and initialize returns.
initializeResult(r) == Returned(NoBody)

\* ------------------------------------------------------------------- state

VARIABLES
  entry,               \* how this process uses the package
  env,                 \* the environment (or the script's config values)
  phase,               \* "boot", "init_health", "init_connect", "serving", "exited"
  client,              \* the server's this.client / the script's client
  registered,          \* the tools registered with the McpServer
  transportConnected,  \* server.connect(transport) was called
  exitCode,            \* the code given to process.exit, -1 while running
  fatal,               \* the message of the fatal startup error
  startup,             \* the requests and outcomes of initialize()
  calls                \* the invocations in flight or just ended

vars ==
  <<entry, env, phase, client, registered, transportConnected, exitCode,
    fatal, startup, calls>>

\* The state at the start of the process, with room for n invocations.
InitWith(n) ==
  /\ entry \in Entries
  /\ env \in [apiKey : EnvApiKeys, projectId : EnvProjectIds,
              aiAssistantId : EnvAssistantIds]
  /\ phase = "boot"
  /\ client = NoClient
  /\ registered = {}
  /\ transportConnected = FALSE
  /\ exitCode = -1
  /\ fatal = ""
  /\ startup = [reqs |-> <<>>, health |-> "none", connect |-> "none"]
  /\ calls = [s \in 1..n |-> IdleCall]

Init == InitWith(MaxInFlight)

Slots == DOMAIN calls

\* ----------------------------------------------------------------- actions

\* run() after initialize(): server.connect(transport) when it returned;
\* main()'s catch and process.exit(1) when it threw.
EndOfRun(r) ==
  IF r.status = "raised"
  THEN /\ phase' = "exited"
       /\ exitCode' = 1
       /\ fatal' = r.error
       /\ UNCHANGED transportConnected
  ELSE /\ phase' = "serving"
       /\ transportConnected' = TRUE
       /\ UNCHANGED <<exitCode, fatal>>

\* run() connecting the transport before it calls initialize().
Main_ConnectsFirst ==
  /\ entry = "cli"
  /\ phase = "boot"
  /\ registered' = ToolNames
  /\ transportConnected' = TRUE
  /\ LET config == InitializeConfig(env)
         err == ConfigError(config)
     IN IF err # Absent
        THEN /\ phase' = "exited"
             /\ exitCode' = 1
             /\ fatal' = err[1]
             /\ UNCHANGED <<client, startup>>
        ELSE \E u \in Uuids :
               LET cl == createBuildableClient(config, NoOptions, u) IN
               /\ client' = cl
               /\ startup' =
                    [startup EXCEPT
                       !.reqs = <<PrimaryRequest(cl, "healthCheck", BlankArgs)>>,
                       !.health = "pending"]
               /\ phase' = "init_health"
               /\ UNCHANGED <<exitCode, fatal>>
  /\ UNCHANGED <<entry, env, calls>>

\* main(): new BuildableMCPServer() registers the tools; run() calls
\* initialize(), which reads and checks the config, creates the client and
\* awaits healthCheck().
Main ==
  /\ entry = "cli"
  /\ phase = "boot"
  /\ registered' = ToolNames
  /\ LET config == InitializeConfig(env)
         err == ConfigError(config)
     IN IF err # Absent
        THEN /\ EndOfRun(Raised("Error", err[1]))
             /\ UNCHANGED <<client, startup>>
        ELSE \E u \in Uuids :
               LET cl == createBuildableClient(config, NoOptions, u) IN
               /\ client' = cl
               /\ startup' =
                    [startup EXCEPT
                       !.reqs = <<PrimaryRequest(cl, "healthCheck", BlankArgs)>>,
                       !.health = "pending"]
               /\ phase' = "init_health"
               /\ UNCHANGED <<transportConnected, exitCode, fatal>>
  /\ UNCHANGED <<entry, env, calls>>

\* initialize() with a try/catch of its own around each call: connect()
\* runs whether healthCheck() failed or not.
InitHealthAnswer_ConnectAnyway(ans) ==
  /\ phase = "init_health"
  /\ startup' =
       [reqs |-> Append(Settle(startup.reqs, ans),
                        HeartbeatOf(client, "connect", BlankArgs)),
        health |-> IF IsOk(ans) THEN "ok" ELSE "failed",
        connect |-> "pending"]
  /\ phase' = "init_connect"
  /\ UNCHANGED <<transportConnected, exitCode, fatal>>
  /\ UNCHANGED <<entry, env, client, registered, calls>>

\* initialize(): healthCheck() settles; on success connect() posts its
\* heartbeat, on failure the catch block ends initialize().
InitHealthAnswer(ans) ==
  /\ phase = "init_health"
  /\ LET r == Rethrow(makeRequest(ans)) IN
     IF r.status = "returned"
     THEN /\ startup' =
               [reqs |-> Append(Settle(startup.reqs, ans),
                                HeartbeatOf(client, "connect", BlankArgs)),
                health |-> "ok", connect |-> "pending"]
          /\ phase' = "init_connect"
          /\ UNCHANGED <<transportConnected, exitCode, fatal>>
     ELSE /\ startup' = [startup EXCEPT !.reqs = Settle(startup.reqs, ans),
                                        !.health = "failed"]
          /\ EndOfRun(initializeResult(r))
  /\ UNCHANGED <<entry, env, client, registered, calls>>

\* initialize(): connect()'s heartbeat settles and initialize() ends.
InitConnectAnswer(ans) ==
  /\ phase = "init_connect"
  /\ startup' = [startup EXCEPT
                   !.reqs = Settle(startup.reqs, ans),
                   !.connect = IF IsOk(ans) THEN "ok" ELSE "failed"]
  /\ EndOfRun(initializeResult(connectResult(ans)))
  /\ UNCHANGED <<entry, env, client, registered, calls>>

\* A script calls setupBuildable with its values.
Setup ==
  /\ entry = "setup"
  /\ phase = "boot"
  /\ \E u \in Uuids :
       client' = setupBuildable(EnvOr(env.apiKey, ""), EnvOr(env.projectId, ""),
                                env.aiAssistantId, u)
  /\ phase' = "serving"
  /\ UNCHANGED <<entry, env, registered, transportConnected, exitCode, fatal,
                 startup, calls>>

\* A script calls createBuildableClient with its values and options.
Create ==
  /\ entry = "create"
  /\ phase = "boot"
  /\ \E u \in Uuids, o \in ClientOptionSets :
       client' = createBuildableClient(
                   Config("https://bldbl.dev/api", EnvOr(env.apiKey, ""),
                          EnvOr(env.projectId, ""), env.aiAssistantId), o, u)
  /\ phase' = "serving"
  /\ UNCHANGED <<entry, env, registered, transportConnected, exitCode, fatal,
                 startup, calls>>

\* The MCP peer invokes a registered tool; handlers of several invocations
\* may be in flight together.
Invoke(s) ==
  /\ transportConnected
  /\ calls[s].pc = "idle"
  /\ \E tool \in registered : \E a \in ToolArgs(tool) :
       calls' = [calls EXCEPT ![s] = InvokeTool(client, tool, a)]
  /\ UNCHANGED <<entry, env, phase, client, registered, transportConnected,
                 exitCode, fatal, startup>>

\* A script awaits one method of its Client after the other.
Call ==
  /\ entry # "cli"
  /\ phase = "serving"
  /\ \A s \in Slots : calls[s].pc = "idle"
  /\ \E m \in PrimaryMethods \cup DirectMethods : \E ma \in MethodArgs(m) :
       calls' = [calls EXCEPT ![1] = CallMethod(client, m, ma)]
  /\ UNCHANGED <<entry, env, phase, client, registered, transportConnected,
                 exitCode, fatal, startup>>

\* The slot of another invocation in flight, if there is one.
OtherInFlight(s) ==
  IF \E o \in Slots : o # s /\ calls[o].pc \notin {"idle", "done"}
  THEN CHOOSE o \in Slots : o # s /\ calls[o].pc \notin {"idle", "done"}
  ELSE s

\* The Client keeping the arguments of the operation in a field of its
\* own: the heartbeat reports what the latest caller left there.
PrimaryAnswer_SharedArgs(s, ans) ==
  /\ calls[s].pc = "primary"
  /\ LET c == calls[s]
         r == makeRequest(ans)
         settled == [c EXCEPT !.reqs = Settle(c.reqs, ans), !.answer = ans,
                              !.envelope = IF IsOk(ans)
                                           THEN Some(Envelope(ans))
                                           ELSE Absent]
         shared == calls[OtherInFlight(s)]
         posted == [settled EXCEPT
                      !.reqs = Append(@, HeartbeatOf(client, c.method,
                                                     shared.margs))]
     IN calls' = [calls EXCEPT ![s] =
          IF r.status = "raised" THEN Finish(settled, Rethrow(r))
          ELSE IF HasHeartbeat(c.method)
          THEN [posted EXCEPT !.pc = "heartbeat"]
          ELSE Finish(settled, OperationResult(c.method, r.data))]
  /\ client' = ClientAfter(client, calls[s].method, calls[s].margs)
  /\ UNCHANGED <<entry, env, phase, registered, transportConnected,
                 exitCode, fatal, startup>>

\* The operations' catch blocks posting the heartbeat before they throw
\* again, so that the connection record follows failures too.
PrimaryAnswer_HeartbeatInCatch(s, ans) ==
  /\ calls[s].pc = "primary"
  /\ LET c == calls[s]
         r == makeRequest(ans)
         settled == [c EXCEPT !.reqs = Settle(c.reqs, ans), !.answer = ans,
                              !.envelope = IF IsOk(ans)
                                           THEN Some(Envelope(ans))
                                           ELSE Absent]
         posted == [settled EXCEPT
                      !.reqs = Append(@, HeartbeatOf(client, c.method, c.margs))]
     IN calls' = [calls EXCEPT ![s] =
          IF r.status = "raised"
          THEN IF HasHeartbeat(c.method) THEN Finish(posted, Rethrow(r))
               ELSE Finish(settled, Rethrow(r))
          ELSE IF HasHeartbeat(c.method)
          THEN [posted EXCEPT !.pc = "heartbeat"]
          ELSE Finish(settled, OperationResult(c.method, r.data))]
  /\ client' = ClientAfter(client, calls[s].method, calls[s].margs)
  /\ UNCHANGED <<entry, env, phase, registered, transportConnected,
                 exitCode, fatal, startup>>

\* The answer to a primary request arrives: the operation throws, posts
\* its heartbeat, or returns.
PrimaryAnswer(s, ans) ==
  /\ calls[s].pc = "primary"
  /\ LET c == calls[s]
         r == makeRequest(ans)
         settled == [c EXCEPT !.reqs = Settle(c.reqs, ans), !.answer = ans,
                              !.envelope = IF IsOk(ans)
                                           THEN Some(Envelope(ans))
                                           ELSE Absent]
         posted == [settled EXCEPT
                      !.reqs = Append(@, HeartbeatOf(client, c.method, c.margs))]
     IN calls' = [calls EXCEPT ![s] =
          IF r.status = "raised"
          THEN IF ShouldRetry(client, c.reqs)
               THEN [settled EXCEPT
                       !.reqs = Append(@, PrimaryRequest(client, c.method,
                                                         c.margs))]
               ELSE Finish(settled, Rethrow(r))
          ELSE IF HasHeartbeat(c.method)
          THEN IF AwaitsHeartbeat THEN [posted EXCEPT !.pc = "heartbeat"]
               ELSE Finish(posted, Returned(r.data))
          ELSE Finish(settled, OperationResult(c.method, r.data))]
  /\ client' = ClientAfter(client, calls[s].method, calls[s].margs)
  /\ UNCHANGED <<entry, env, phase, registered, transportConnected,
                 exitCode, fatal, startup>>

HeartbeatPending(c) ==
  /\ c.pc \in {"heartbeat", "done"}
  /\ Len(c.reqs) > 0
  /\ c.reqs[Len(c.reqs)].kind = "heartbeat"
  /\ c.reqs[Len(c.reqs)].state = "pending"

\* The answer to a heartbeat post arrives: the awaiting operation ends.
HeartbeatAnswer(s, ans) ==
  /\ HeartbeatPending(calls[s])
  /\ LET c == calls[s]
         settled == [c EXCEPT !.reqs = Settle(c.reqs, ans)]
     IN calls' = [calls EXCEPT ![s] =
          IF c.pc = "done" THEN settled
          ELSE IF c.method \in DirectMethods
          THEN Finish(settled, connectResult(ans))
          ELSE Finish(settled,
                      AfterHeartbeat(c.answer.body,
                                     updateConnectionStatus(ans)))]
  /\ UNCHANGED <<entry, env, phase, client, registered, transportConnected,
                 exitCode, fatal, startup>>

\* The answer to getConnectionStatus's lookup arrives.
LookupAnswer(s, ans, listed) ==
  /\ calls[s].pc = "lookup"
  /\ LET c == calls[s] IN
     calls' = [calls EXCEPT ![s] =
                 Finish([c EXCEPT !.reqs = Settle(c.reqs, ans)],
                        lookupResult(ans, listed))]
  /\ UNCHANGED <<entry, env, phase, client, registered, transportConnected,
                 exitCode, fatal, startup>>

\* A failed result taken as fatal, the way main() takes a failed run():
\* the process exits with code 1 once the result is delivered.
Return_Exits(s) ==
  /\ calls[s].pc = "done"
  /\ ~HeartbeatPending(calls[s])
  /\ calls' = [calls EXCEPT ![s] = IdleCall]
  /\ IF calls[s].toolResult.isError
     THEN phase' = "exited" /\ exitCode' = 1
     ELSE UNCHANGED <<phase, exitCode>>
  /\ UNCHANGED <<entry, env, client, registered, transportConnected, fatal,
                 startup>>

\* The caller has its result; the invocation is over.
Return(s) ==
  /\ calls[s].pc = "done"
  /\ ~HeartbeatPending(calls[s])
  /\ calls' = [calls EXCEPT ![s] = IdleCall]
  /\ UNCHANGED <<entry, env, phase, client, registered, transportConnected,
                 exitCode, fatal, startup>>

Next ==
  \/ Main
  \/ \E ans \in Answers : InitHealthAnswer(ans)
  \/ \E ans \in Answers : InitConnectAnswer(ans)
  \/ Setup
  \/ Create
  \/ \E s \in Slots : Invoke(s)
  \/ Call
  \/ \E s \in Slots, ans \in Answers : PrimaryAnswer(s, ans)
  \/ \E s \in Slots, ans \in Answers : HeartbeatAnswer(s, ans)
  \/ \E s \in Slots, ans \in Answers, listed \in BOOLEAN :
       LookupAnswer(s, ans, listed)
  \/ \E s \in Slots : Return(s)

Spec == Init /\ [][Next]_vars

\* ------------------------------------------- the handlers on their own

\* The server object driven by a harness instead of main(): the harness
\* constructs it, may call initialize(), and calls the registered handlers
\* itself, whether or not initialize() has set the client.
InitHandlers ==
  /\ entry = "cli"
  /\ env \in [apiKey : EnvApiKeys, projectId : EnvProjectIds,
              aiAssistantId : EnvAssistantIds]
  /\ phase = "boot"
  /\ client = NoClient
  /\ registered = {}
  /\ transportConnected = FALSE
  /\ exitCode = -1
  /\ fatal = ""
  /\ startup = [reqs |-> <<>>, health |-> "none", connect |-> "none"]
  /\ calls = <<IdleCall>>

\* new BuildableMCPServer(): setupTools registers the seven tools.
Construct ==
  /\ phase = "boot"
  /\ registered = {}
  /\ registered' = ToolNames
  /\ UNCHANGED <<entry, env, phase, client, transportConnected, exitCode,
                 fatal, startup, calls>>

\* The harness calls a registered tool: schema, then handler.
HandlerCall(s) ==
  /\ phase # "exited"
  /\ calls[s].pc = "idle"
  /\ \E tool \in registered : \E a \in ToolArgs(tool) :
       calls' = [calls EXCEPT ![s] = InvokeTool(client, tool, a)]
  /\ UNCHANGED <<entry, env, phase, client, registered, transportConnected,
                 exitCode, fatal, startup>>

NextHandlers ==
  \/ Construct
  \/ registered # {} /\ Main
  \/ \E ans \in Answers : InitHealthAnswer(ans)
  \/ \E ans \in Answers : InitConnectAnswer(ans)
  \/ \E s \in Slots : HandlerCall(s)
  \/ \E s \in Slots, ans \in Answers : PrimaryAnswer(s, ans)
  \/ \E s \in Slots, ans \in Answers : HeartbeatAnswer(s, ans)
  \/ \E s \in Slots : Return(s)

SpecHandlers == InitHandlers /\ [][NextHandlers]_vars

\* --------------------------------------------- invocations in flight together

\* The CLI, configured, with two invocations that may be in flight together:
\* the McpServer starts a handler for each request it reads and the handlers
\* interleave at their awaits.
InitConcurrent ==
  /\ InitWith(2)
  /\ entry = "cli"
  /\ Truthy(env.apiKey)
  /\ Truthy(env.projectId)
  /\ env.aiAssistantId = Absent

NextConcurrent ==
  \/ Main
  \/ \E ans \in Answers : InitHealthAnswer(ans)
  \/ \E ans \in Answers : InitConnectAnswer(ans)
  \/ \E s \in Slots : Invoke(s)
  \/ \E s \in Slots, ans \in Answers : PrimaryAnswer(s, ans)
  \/ \E s \in Slots, ans \in Answers : HeartbeatAnswer(s, ans)
  \/ \E s \in Slots : Return(s)

SpecConcurrent == InitConcurrent /\ [][NextConcurrent]_vars

\* ------------------------------------------ the arguments in their width

\* Optional arguments as a caller may give or omit them.
OptionalLists == {Absent, Some(<<>>), Some(<<"a.ts">>)}
OptionalMinutes == {Absent, Some(0), Some(30)}
OptionalFlags == {Absent, Some(FALSE), Some(TRUE)}

\* Every combination of arguments the schemas of update_progress,
\* complete_task and create_discussion accept, over a few values each.
WideToolArgs(tool) ==
  CASE tool = "update_progress" ->
         {[BlankArgs EXCEPT
             !.task_id = Some(t), !.progress = Some(p),
             !.status_update = Some(su), !.completed_steps = cs,
             !.current_step = st, !.challenges = ch,
             !.files_modified = fm, !.time_spent = ts, !.notes = n] :
            t \in TaskIds, p \in {0, 50}, su \in {"halfway", "stuck"},
            cs \in {Absent, Some(<<"step1">>)},
            st \in {Absent, Some("step2")},
            ch \in {Absent, Some(<<"flaky test">>)},
            fm \in OptionalLists, ts \in OptionalMinutes,
            n \in {Absent, Some("note")}}
    [] tool = "complete_task" ->
         {[BlankArgs EXCEPT
             !.task_id = Some(t), !.completion_notes = Some("done"),
             !.files_modified = fm, !.testing_completed = tc,
             !.documentation_updated = du, !.time_spent = ts] :
            t \in TaskIds, fm \in OptionalLists, tc \in OptionalFlags,
            du \in OptionalFlags, ts \in OptionalMinutes}
    [] OTHER ->
         {[BlankArgs EXCEPT !.title = Some("q"), !.content = Some("why"),
                            !.urgency = u, !.tags = tg] :
            u \in {Absent} \cup {Some(v) : v \in Urgencies},
            tg \in {Absent, Some(<<"api">>)}}

\* The CLI started with its API key and project id set.
InitForwarding ==
  /\ InitWith(1)
  /\ entry = "cli"
  /\ Truthy(env.apiKey)
  /\ Truthy(env.projectId)

\* The MCP peer invokes one of the three tools with any of those arguments.
InvokeWide(s) ==
  /\ transportConnected
  /\ calls[s].pc = "idle"
  /\ \E tool \in registered \cap
                 {"update_progress", "complete_task", "create_discussion"} :
       \E a \in WideToolArgs(tool) :
         calls' = [calls EXCEPT ![s] = InvokeTool(client, tool, a)]
  /\ UNCHANGED <<entry, env, phase, client, registered, transportConnected,
                 exitCode, fatal, startup>>

NextForwarding ==
  \/ Main
  \/ \E ans \in Answers : InitHealthAnswer(ans)
  \/ \E ans \in Answers : InitConnectAnswer(ans)
  \/ \E s \in Slots : InvokeWide(s)

SpecForwarding == InitForwarding /\ [][NextForwarding]_vars

\* ------------------------------------------------- invocations side by side

\* Arguments for two invocations to be compared: each tool with and without
\* the arguments its handler or the Client leaves aside, over a few values
\* of the others.
PairToolArgs(tool) ==
  CASE tool = "update_progress" ->
         {[BlankArgs EXCEPT !.task_id = Some(t), !.progress = Some(p),
                            !.status_update = Some(su), !.notes = n] :
            t \in TaskIds, p \in {0, 50}, su \in {"halfway", "stuck"},
            n \in {Absent, Some("note")}}
    [] tool = "complete_task" ->
         {[BlankArgs EXCEPT !.task_id = Some(t),
                            !.completion_notes = Some("done"),
                            !.testing_completed = tc,
                            !.documentation_updated = du] :
            t \in TaskIds, tc \in {Absent, Some(TRUE)}, du \in OptionalFlags}
    [] OTHER ->
         {[BlankArgs EXCEPT !.title = Some("q"), !.content = Some("why"),
                            !.urgency = u, !.tags = tg] :
            u \in {Absent, Some("high")}, tg \in {Absent, Some(<<"api">>)}}

\* The CLI, configured, with room for two invocations.
InitPairs ==
  /\ InitWith(2)
  /\ entry = "cli"
  /\ Truthy(env.apiKey)
  /\ Truthy(env.projectId)
  /\ env.aiAssistantId = Absent

\* The MCP peer invokes one of the three tools.
InvokePair(s) ==
  /\ transportConnected
  /\ calls[s].pc = "idle"
  /\ \E tool \in registered \cap
                 {"update_progress", "complete_task", "create_discussion"} :
       \E a \in PairToolArgs(tool) :
         calls' = [calls EXCEPT ![s] = InvokeTool(client, tool, a)]
  /\ UNCHANGED <<entry, env, phase, client, registered, transportConnected,
                 exitCode, fatal, startup>>

NextPairs ==
  \/ Main
  \/ \E ans \in Answers : InitHealthAnswer(ans)
  \/ \E ans \in Answers : InitConnectAnswer(ans)
  \/ \E s \in Slots : InvokePair(s)

SpecPairs == InitPairs /\ [][NextPairs]_vars

\* ------------------------------------------------------------------ claims

\* The invocations that have ended.
Done(c) == c.pc = "done"

\* The invocations whose primary request the backend failed.
PrimaryFailed(c) == c.method \in PrimaryMethods /\ c.answer \in Failures

\* The invocations whose primary request the backend answered 2xx.
PrimarySucceeded(c) == c.method \in PrimaryMethods /\ IsOk(c.answer)

\* The heartbeat posts in a request log.
Heartbeats(reqs) == {i \in 1..Len(reqs) : reqs[i].kind = "heartbeat"}

Primaries(reqs) == {i \in 1..Len(reqs) : reqs[i].kind = "primary"}

\* C1 as stated: the error text is the body's error when the body has one,
\* else the body's message when it has one, else the transport's message.
StatedErrorText(ans) ==
  IF ans.body.error # Absent THEN ans.body.error[1]
  ELSE IF ans.body.message # Absent THEN ans.body.message[1]
  ELSE TransportMessage(ans)

\* C1 as amended: an empty error or message counts as missing.
AmendedErrorText(ans) ==
  IF ans.body.error # Absent /\ ans.body.error[1] # "" THEN ans.body.error[1]
  ELSE IF ans.body.message # Absent /\ ans.body.message[1] # ""
  THEN ans.body.message[1]
  ELSE TransportMessage(ans)

C2_PrimaryFailureRaised ==
  \A s \in Slots :
    PrimaryFailed(calls[s]) =>
      /\ Done(calls[s])
      /\ calls[s].result.status = "raised"
      /\ calls[s].result.type = "APIError"
      /\ calls[s].result.data = NoBody
      /\ (calls[s].via = "tool" =>
            /\ calls[s].toolResult.isError
            /\ calls[s].toolResult.content = Absent)

\* C2 witness: a tool invocation whose primary request met a network failure
\* ended as a failed tool result.
C2_Witness ==
  \E s \in Slots :
    /\ Done(calls[s])
    /\ calls[s].via = "tool"
    /\ calls[s].answer.kind = "network"
    /\ calls[s].toolResult.isError

\* C3: for startTask, updateProgress and completeTask, once the primary
\* request succeeded the operation returns the primary response unchanged
\* whether the heartbeat post succeeds or fails; it never raises.
C3_HeartbeatFailureSwallowed ==
  \A s \in Slots :
    (Done(calls[s]) /\ HasHeartbeat(calls[s].method)
       /\ PrimarySucceeded(calls[s])) =>
      /\ calls[s].result = Returned(calls[s].answer.body)
      /\ (calls[s].via = "tool" => ~calls[s].toolResult.isError)

\* C3 witness: an operation returned its primary response after its
\* heartbeat post failed.
C3_Witness ==
  \E s \in Slots :
    /\ Done(calls[s])
    /\ HasHeartbeat(calls[s].method)
    /\ Len(calls[s].reqs) = 2
    /\ calls[s].reqs[2].state = "failed"
    /\ calls[s].result.status = "returned"
    /\ calls[s].result.data.present

\* C4: startTask(t, opts) whose primary request succeeded posts exactly one
\* heartbeat, with status "working" and current_task_id = t, and returns
\* the StartTaskResponse whatever the heartbeat's outcome.
C4_StartTaskHeartbeat ==
  \A s \in Slots :
    (calls[s].method = "startTask" /\ PrimarySucceeded(calls[s])) =>
      LET c == calls[s] IN
      /\ Cardinality(Heartbeats(c.reqs)) = 1
      /\ \A i \in Heartbeats(c.reqs) :
           /\ c.reqs[i].body.status = "working"
           /\ c.reqs[i].body.current_task_id = c.margs.task_id
           /\ c.margs.task_id # Absent
           /\ c.reqs[i].method = "POST"
           /\ c.reqs[i].url = <<"/internal/ai-connections">>
      /\ (Done(c) => c.result = Returned(c.answer.body))

\* C4 witness: startTask on the first task returned its response after its
\* one heartbeat post failed.
C4_Witness ==
  \E s \in Slots :
    /\ Done(calls[s])
    /\ calls[s].method = "startTask"
    /\ calls[s].margs.task_id = Some(<<"t", 1>>)
    /\ calls[s].margs.approach = Some("tdd")
    /\ Len(calls[s].reqs) = 2
    /\ calls[s].reqs[2].state = "failed"
    /\ calls[s].result.status = "returned"

\* C5: every tool invocation issues at most one primary request followed by
\* at most one heartbeat post: never a heartbeat before the primary request
\* has succeeded, never two of either, and it ends only when every request
\* it issued has settled.
C5_RequestShape ==
  \A s \in Slots :
    calls[s].via = "tool" =>
      LET reqs == calls[s].reqs IN
      /\ Len(reqs) <= 2
      /\ \A i \in 1..Len(reqs) : reqs[i].kind \in {"primary", "heartbeat"}
      /\ Cardinality(Primaries(reqs)) <= 1
      /\ Cardinality(Heartbeats(reqs)) <= 1
      /\ \A i \in Heartbeats(reqs) :
           i = 2 /\ reqs[1].kind = "primary" /\ reqs[1].state = "ok"
      /\ (Done(calls[s]) =>
            \A i \in 1..Len(reqs) : reqs[i].state # "pending")

\* C5 witness: a tool invocation ended after a primary request and a
\* heartbeat post.
C5_Witness ==
  \E s \in Slots :
    /\ Done(calls[s])
    /\ calls[s].via = "tool"
    /\ Len(calls[s].reqs) = 2
    /\ calls[s].reqs[1].kind = "primary"
    /\ calls[s].reqs[2].kind = "heartbeat"

\* Every request the process has issued and still knows of.
AllRequests ==
  {startup.reqs[i] : i \in 1..Len(startup.reqs)}
    \cup UNION {{calls[s].reqs[i] : i \in 1..Len(calls[s].reqs)} : s \in Slots}

\* C6: every outbound request of a Client (primary, heartbeat, lookup)
\* carries Authorization: Bearer <apiKey>, X-AI-Assistant-ID: <assistant id>
\* and Content-Type: application/json, with the values the Client was
\* constructed with; the Client's headers are those same values in every
\* state.
C6_FixedHeaders ==
  /\ client.set =>
       /\ client.apiKey = EnvOr(env.apiKey, "")
       /\ client.headers.Authorization = <<"Bearer ", client.apiKey>>
       /\ client.headers.XAIAssistantID = client.aiAssistantId
       /\ client.headers.ContentType = "application/json"
  /\ \A r \in AllRequests :
       /\ client.set
       /\ r.kind \in {"primary", "heartbeat", "lookup"}
       /\ r.headers.Authorization = <<"Bearer ", EnvOr(env.apiKey, "")>>
       /\ r.headers.XAIAssistantID = client.aiAssistantId
       /\ r.headers.ContentType = "application/json"

\* C6 witness: the server has issued its health check and its connect
\* heartbeat at startup, and a tool invocation its primary request and its
\* heartbeat.
C6_Witness ==
  /\ Len(startup.reqs) = 2
  /\ \E s \in Slots :
       /\ Len(calls[s].reqs) = 2
       /\ calls[s].reqs[2].kind = "heartbeat"
       /\ calls[s].reqs[2].state # "pending"

\* C7: connect() and disconnect() return without raising whether their
\* heartbeat post succeeds or fails; each issues exactly one heartbeat post
\* ("connected" / "disconnected") and no primary request.  The connect()
\* of startup does not stop the server either.
C7_ConnectNeverRaises ==
  /\ \A s \in Slots :
       calls[s].method \in {"connect", "disconnect"} =>
         LET c == calls[s] IN
         /\ Len(c.reqs) = 1
         /\ c.reqs[1].kind = "heartbeat"
         /\ c.reqs[1].body.status =
              (IF c.method = "connect" THEN "connected" ELSE "disconnected")
         /\ c.result.status # "raised"
         /\ (Done(c) <=> c.reqs[1].state # "pending")
         /\ (Done(c) => c.result = Returned(NoBody))
  /\ startup.connect # "none" =>
       /\ Len(startup.reqs) = 2
       /\ startup.reqs[2].kind = "heartbeat"
       /\ startup.reqs[2].body.status = "connected"
       /\ exitCode = -1

\* C7 witness: disconnect() returned after its heartbeat post failed.
C7_Witness ==
  \E s \in Slots :
    /\ Done(calls[s])
    /\ calls[s].method = "disconnect"
    /\ calls[s].reqs[1].state = "failed"
    /\ calls[s].result.status = "returned"

\* The invocations of updateProgress, through the tool or directly.
IsUpdateProgress(c) ==
  c.tool = "update_progress" \/ c.method = "updateProgress"

OutOfRange(c) ==
  /\ c.args.progress # Absent
  /\ (c.args.progress[1] < 0 \/ c.args.progress[1] > 100)

\* C8 (original): updateProgress with a progress outside [0,100] is
\* rejected before any network call is made: no request is issued.
C8_OutOfRangeRejectedAsStated ==
  \A s \in Slots :
    (IsUpdateProgress(calls[s]) /\ OutOfRange(calls[s])) =>
      /\ calls[s].reqs = <<>>
      /\ calls[s].result.status = "raised"

\* C8 (amended): the update_progress tool invoked with a progress outside
\* [0,100] is rejected by its schema before any network call is made: no
\* primary request and no heartbeat is issued; with progress 0 or 100 the
\* invocation is accepted and its primary request carries that value.
C8_ToolOutOfRangeRejected ==
  \A s \in Slots :
    (calls[s].via = "tool" /\ calls[s].tool = "update_progress") =>
      LET c == calls[s] IN
      IF OutOfRange(c)
      THEN /\ Done(c)
           /\ c.reqs = <<>>
           /\ c.result.status = "raised"
           /\ c.result.type = "ValidationError"
           /\ c.toolResult.isError
      ELSE /\ Len(c.reqs) >= 1
           /\ c.reqs[1].kind = "primary"
           /\ c.reqs[1].body.completion_percentage = c.args.progress
           /\ c.result.type # "ValidationError"

\* C8 witness: update_progress with progress 150 ended as a failed tool
\* result without a request.
C8_Witness ==
  \E s \in Slots :
    /\ Done(calls[s])
    /\ calls[s].tool = "update_progress"
    /\ calls[s].args.progress = Some(150)
    /\ calls[s].reqs = <<>>
    /\ calls[s].toolResult.isError

\* C9: when the API key or the project id is missing or empty at the CLI's
\* startup, the process exits with code 1 and an error naming the missing
\* variable; no Client is constructed, no request is issued and the stdio
\* transport is never connected.
C9_MissingConfigFatal ==
  (entry = "cli" /\ phase # "boot"
     /\ (~Truthy(env.apiKey) \/ ~Truthy(env.projectId))) =>
    /\ phase = "exited"
    /\ exitCode = 1
    /\ fatal = (IF ~Truthy(env.apiKey)
                THEN "BUILDABLE_API_KEY environment variable is required"
                ELSE "BUILDABLE_PROJECT_ID environment variable is required")
    /\ ~client.set
    /\ AllRequests = {}
    /\ ~transportConnected
    /\ \A s \in Slots : calls[s].pc = "idle"

\* C9 witness: the CLI exited with code 1 for a missing project id.
C9_Witness ==
  /\ entry = "cli"
  /\ Truthy(env.apiKey)
  /\ ~Truthy(env.projectId)
  /\ phase = "exited"
  /\ exitCode = 1

\* C10: a failed startup health check or connect heartbeat is not fatal:
\* the process goes on serving with its Client set, the transport connected
\* and the seven tools registered, and each later tool invocation ends by
\* the backend's answer to its own primary request.
C10_StartupFailureNonFatal ==
  (startup.health = "failed" \/ startup.connect = "failed") =>
    /\ phase = "serving"
    /\ exitCode = -1
    /\ client.set
    /\ transportConnected
    /\ registered = ToolNames
    /\ \A s \in Slots :
         (Done(calls[s]) /\ calls[s].method \in PrimaryMethods) =>
           /\ IsOk(calls[s].answer) => calls[s].result = Returned(calls[s].answer.body)
           /\ ~IsOk(calls[s].answer) => calls[s].toolResult.isError

\* C10 witness: after a failed startup health check a tool invocation
\* returned the backend's response.
C10_Witness ==
  /\ startup.health = "failed"
  /\ \E s \in Slots :
       /\ Done(calls[s])
       /\ calls[s].via = "tool"
       /\ calls[s].result.status = "returned"
       /\ calls[s].result.data.present

\* The API key or the project id handed to the constructing call site is
\* empty.
EmptyCredentials == ~Truthy(env.apiKey) \/ ~Truthy(env.projectId)

\* C11 (original): at every constructing call site of the package (the
\* CLI's initialize, setupBuildable, createBuildableClient), constructing a
\* Client with an empty API key or project id fails with a configuration
\* error: no Client comes out of it.
C11_ConstructionCheckedAsStated ==
  (phase # "boot" /\ EmptyCredentials) => (~client.set /\ fatal # "")

\* C11 (amended): the CLI's initialize checks the API key and the project id
\* before it constructs the Client and fails with a configuration error
\* when either is empty, so the CLI's Client never holds an empty one; the
\* constructor checks nothing, and setupBuildable and createBuildableClient
\* return a Client holding whatever values they were given, empty or not.
C11_ConstructionChecked ==
  /\ (entry = "cli" /\ phase # "boot") =>
       IF EmptyCredentials
       THEN ~client.set /\ fatal # "" /\ phase = "exited"
       ELSE client.set /\ fatal = ""
  /\ (entry = "cli" /\ client.set) =>
       client.apiKey # "" /\ client.projectId # ""
  /\ (entry # "cli" /\ phase # "boot") =>
       /\ client.set
       /\ fatal = ""
       /\ client.apiKey = EnvOr(env.apiKey, "")
       /\ client.projectId = EnvOr(env.projectId, "")

\* C11 witness: the CLI's initialize failed on an empty API key (the
\* project id being set) and constructed no Client.
C11_Witness ==
  /\ entry = "cli"
  /\ ~Truthy(env.apiKey)
  /\ Truthy(env.projectId)
  /\ phase = "exited"
  /\ ~client.set
  /\ fatal = "BUILDABLE_API_KEY environment variable is required"

\* C12: a tool handler invoked while the server's client is not set ends
\* at once with the error "Not connected to Buildable API": the invocation
\* issues no request, nothing is tried again, and no request exists at all
\* while the client is not set.  This holds for each of the seven tools.
C12_NotConnected ==
  ~client.set =>
    /\ AllRequests = {}
    /\ \A s \in Slots :
         (calls[s].via = "tool" /\ Validate(calls[s].tool, calls[s].args)) =>
           /\ calls[s].tool \in ToolNames
           /\ Done(calls[s])
           /\ calls[s].reqs = <<>>
           /\ calls[s].method = ""
           /\ calls[s].result.status = "raised"
           /\ calls[s].result.type = "Error"
           /\ calls[s].result.error = "Not connected to Buildable API"
           /\ calls[s].toolResult.isError
           /\ calls[s].toolResult.message = "Not connected to Buildable API"

\* C12 witness: start_task, called with a task id before initialize() has
\* set the client, ended with the "Not connected" error and no request.
C12_Witness ==
  /\ ~client.set
  /\ \E s \in Slots :
       /\ Done(calls[s])
       /\ calls[s].tool = "start_task"
       /\ calls[s].args.task_id = Some(<<"t", 1>>)
       /\ calls[s].reqs = <<>>
       /\ calls[s].result.error = "Not connected to Buildable API"

\* C13: there is no retry.  Every primary operation issues its request
\* exactly once, also when the request fails and whatever retryAttempts and
\* retryDelay the Client was constructed with; a failed request ends the
\* operation, raised, after that one attempt.
C13_NoRetry ==
  \A s \in Slots :
    calls[s].method \in PrimaryMethods =>
      LET c == calls[s] IN
      /\ Cardinality(Primaries(c.reqs)) = 1
      /\ c.reqs[1].kind = "primary"
      /\ PrimaryFailed(c) =>
           /\ Done(c)
           /\ Len(c.reqs) = 1
           /\ c.reqs[1].state = "failed"
           /\ c.result.status = "raised"

\* C13 witness: on a Client constructed with retryAttempts = 5 an operation
\* ended, raised, after its one request met a network failure.
C13_Witness ==
  /\ client.retryAttempts = 5
  /\ \E s \in Slots :
       /\ Done(calls[s])
       /\ calls[s].answer.kind = "network"
       /\ Len(calls[s].reqs) = 1
       /\ calls[s].reqs[1].state = "failed"
       /\ calls[s].result.status = "raised"

\* C14: once its primary request has succeeded, updateProgress(t, ...) posts
\* one heartbeat with status "working" and current_task_id = t, and
\* completeTask(t, ...) posts one heartbeat with status "connected" and no
\* current task id; getProjectContext, getNextTask, createDiscussion and
\* healthCheck never post a heartbeat.
C14_HeartbeatPerOperation ==
  \A s \in Slots :
    LET c == calls[s] IN
    /\ (c.method = "updateProgress" /\ PrimarySucceeded(c)) =>
         /\ Cardinality(Heartbeats(c.reqs)) = 1
         /\ \A i \in Heartbeats(c.reqs) :
              /\ c.reqs[i].body.status = "working"
              /\ c.reqs[i].body.current_task_id = c.margs.task_id
              /\ c.margs.task_id # Absent
    /\ (c.method = "completeTask" /\ PrimarySucceeded(c)) =>
         /\ Cardinality(Heartbeats(c.reqs)) = 1
         /\ \A i \in Heartbeats(c.reqs) :
              /\ c.reqs[i].body.status = "connected"
              /\ c.reqs[i].body.current_task_id = Absent
    /\ c.method \in {"getProjectContext", "getNextTask", "createDiscussion",
                     "healthCheck"} =>
         Heartbeats(c.reqs) = {}

\* C14 witness: completeTask on the first task ended after its "connected"
\* heartbeat, and that heartbeat names no task.
C14_Witness ==
  \E s \in Slots :
    /\ Done(calls[s])
    /\ calls[s].method = "completeTask"
    /\ calls[s].margs.task_id = Some(<<"t", 1>>)
    /\ Len(calls[s].reqs) = 2
    /\ calls[s].reqs[2].kind = "heartbeat"
    /\ calls[s].reqs[2].body.status = "connected"
    /\ calls[s].reqs[2].body.current_task_id = Absent
    /\ calls[s].reqs[2].state = "ok"

\* C15: every response envelope produced for a Client call has its data
\* present if and only if its success flag is true, whatever the backend
\* answered, a 2xx answer with an empty body included.
C15_DataIffSuccess ==
  \A s \in Slots :
    /\ (calls[s].method \in PrimaryMethods /\ IsOk(calls[s].answer)) =>
         calls[s].envelope # Absent
    /\ calls[s].envelope # Absent =>
         (calls[s].envelope[1].data # Absent <=> calls[s].envelope[1].success)

\* C16: getNextTask, when the backend answers 2xx with a body that has no
\* task, returns that body as it is, its task absent, and does not raise;
\* the get_next_task tool then gives a normal result carrying that body.
C16_NoTaskIsSuccess ==
  \A s \in Slots :
    LET c == calls[s] IN
    (Done(c) /\ c.method = "getNextTask" /\ IsOk(c.answer)
       /\ c.answer.body.present /\ c.answer.body.task = Absent) =>
      /\ c.result.status = "returned"
      /\ c.result.data = c.answer.body
      /\ c.result.data.task = Absent
      /\ Heartbeats(c.reqs) = {}
      /\ (c.via = "tool" =>
            /\ ~c.toolResult.isError
            /\ c.toolResult.content = Some(<<"JSON.stringify", c.answer.body>>))

\* C16 witness: get_next_task gave a normal result for the answer
\* { message: "No tasks available" }.
C16_Witness ==
  \E s \in Slots :
    /\ Done(calls[s])
    /\ calls[s].tool = "get_next_task"
    /\ calls[s].answer.status = 200
    /\ calls[s].answer.body.message = Some("No tasks available")
    /\ calls[s].answer.body.task = Absent
    /\ calls[s].result.status = "returned"
    /\ ~calls[s].toolResult.isError

\* C17: createDiscussion without an urgency sends "medium", as the
\* top-level urgency and as context.urgency of its request body; with an
\* urgency of low, medium or high both fields carry that value.  The two
\* fields are equal in every request.
C17_UrgencyDefault ==
  \A s \in Slots :
    calls[s].method = "createDiscussion" =>
      LET c == calls[s]
          body == c.reqs[1].body
      IN /\ c.reqs[1].kind = "primary"
         /\ body.urgency = body.context.urgency
         /\ c.margs.urgency = Absent => body.urgency = Some("medium")
         /\ c.margs.urgency # Absent =>
              /\ c.margs.urgency[1] \in Urgencies
              /\ body.urgency = c.margs.urgency
         /\ c.via = "tool" => c.margs.urgency = c.args.urgency

\* C17 witness: create_discussion invoked without an urgency has sent
\* "medium" in both fields.
C17_Witness ==
  \E s \in Slots :
    /\ calls[s].tool = "create_discussion"
    /\ calls[s].args.urgency = Absent
    /\ Len(calls[s].reqs) = 1
    /\ calls[s].reqs[1].body.urgency = Some("medium")
    /\ calls[s].reqs[1].body.context.urgency = Some("medium")
    /\ calls[s].reqs[1].state = "ok"

\* The assistant id each constructing call site derives from its input: the
\* configured id, the call site's default, or "ai_" and a random part.
DerivedAssistantIds ==
  IF Truthy(env.aiAssistantId) THEN {<<env.aiAssistantId[1]>>}
  ELSE CASE entry = "cli" -> {<<"cursor-ide">>}
         [] entry = "setup" -> {<<"buildable-client">>}
         [] OTHER -> {<<"ai_", u>> : u \in Uuids}

\* C18: the assistant id of a Client is derived once, at construction (the
\* configured id, or a generated one with the fixed prefix "ai_"), and is
\* the one value found in the X-AI-Assistant-ID header of every request, in
\* ai_assistant_id of every start-task body and of every heartbeat body, and
\* in created_by of every discussion body, after any sequence of operations.
C18_OneAssistantId ==
  /\ client.set =>
       /\ client.aiAssistantId \in DerivedAssistantIds
       /\ client.headers.XAIAssistantID = client.aiAssistantId
  /\ \A r \in AllRequests :
       /\ r.headers.XAIAssistantID = client.aiAssistantId
       /\ r.kind = "heartbeat" => r.body.ai_assistant_id = client.aiAssistantId
       /\ (r.kind = "primary" /\ r.url[Len(r.url)] = "/start") =>
            r.body.ai_assistant_id = client.aiAssistantId
       /\ (r.kind = "primary" /\ r.url[Len(r.url)] = "/discuss") =>
            r.body.created_by = client.aiAssistantId

\* C18 witness: a Client constructed without an assistant id generated
\* "ai_u1", and its startTask has sent that id in the header and body of
\* its primary request and of its heartbeat.
C18_Witness ==
  /\ env.aiAssistantId = Absent
  /\ client.aiAssistantId = <<"ai_", "u1">>
  /\ \E s \in Slots :
       /\ Done(calls[s])
       /\ calls[s].method = "startTask"
       /\ Len(calls[s].reqs) = 2
       /\ calls[s].reqs[1].body.ai_assistant_id = <<"ai_", "u1">>
       /\ calls[s].reqs[2].body.ai_assistant_id = <<"ai_", "u1">>
       /\ calls[s].reqs[2].headers.XAIAssistantID = <<"ai_", "u1">>

\* The request a tool invocation on a task is forwarded as.
ForwardedTo(c, last) ==
  /\ Len(c.reqs) = 1
  /\ c.reqs[1].kind = "primary"
  /\ c.reqs[1].method = "POST"
  /\ c.reqs[1].url = <<"/tasks/", c.args.task_id, last>>
  /\ c.reqs[1].state = "pending"

\* C19: each invocation is stateless.  No step changes the Client once it
\* is constructed (config, options, headers, assistant id); whatever came
\* before, a valid update_progress or complete_task on a task is forwarded
\* to the backend as that task's request, no start_task on the task being
\* needed; and a primary operation that has ended has returned the body of
\* the answer to its own request, or raised when that answer was a failure.
C19_Stateless ==
  [][/\ client.set => client' = client
     /\ \A s \in Slots :
          LET c == calls'[s] IN
          /\ (calls[s].pc = "idle" /\ c.pc # "idle" /\ c.via = "tool"
                /\ Validate(c.tool, c.args)) =>
               /\ c.tool = "update_progress" => ForwardedTo(c, "/progress")
               /\ c.tool = "complete_task" => ForwardedTo(c, "/complete")
               /\ c.tool = "start_task" => ForwardedTo(c, "/start")
          /\ (Done(c) /\ c.method \in PrimaryMethods) =>
               IF IsOk(c.answer)
               THEN c.result.status = "returned" /\ c.result.data = c.answer.body
               ELSE c.result.status = "raised"]_vars

\* C19 witness: update_progress on the first task was forwarded and has
\* returned the backend's response.
C19_Witness ==
  \E s \in Slots :
    /\ Done(calls[s])
    /\ calls[s].tool = "update_progress"
    /\ calls[s].args.task_id = Some(<<"t", 1>>)
    /\ Len(calls[s].reqs) = 2
    /\ calls[s].reqs[1].url = <<"/tasks/", Some(<<"t", 1>>), "/progress">>
    /\ calls[s].result.status = "returned"
    /\ calls[s].result.data.present

\* The state of the process apart from its invocations.
ProcessState ==
  <<entry, env, phase, client, registered, transportConnected, exitCode,
    fatal, startup>>

\* C20: a failed tool invocation neither crashes nor disables the process.
\* The step that ends an invocation in a failed result, and the step that
\* delivers it, leave the process as it was: serving, its Client set, the
\* transport connected, the seven tools registered, no exit code; the slot
\* of the invocation is free again, so the process is in the state it was
\* in before the invocation and a later invocation is dispatched as it
\* would have been without the failure.
C20_FailureNotFatal ==
  [][\A s \in Slots :
       /\ (calls'[s].via = "tool" /\ calls'[s].toolResult.isError) =>
            /\ UNCHANGED ProcessState
            /\ phase' = "serving"
            /\ client'.set
            /\ transportConnected'
            /\ registered' = ToolNames
            /\ exitCode' = -1
       /\ (calls[s].via = "tool" /\ calls[s].toolResult.isError
             /\ calls'[s] # calls[s]) =>
            /\ calls'[s] = IdleCall
            /\ UNCHANGED ProcessState
            /\ phase' = "serving"
            /\ client'.set
            /\ exitCode' = -1
       /\ (calls[s].pc = "idle" /\ calls'[s].via = "tool"
             /\ Validate(calls'[s].tool, calls'[s].args)) =>
            /\ Len(calls'[s].reqs) = 1
            /\ calls'[s].reqs[1].kind = "primary"
            /\ calls'[s].reqs[1].state = "pending"
            /\ UNCHANGED ProcessState]_vars

\* C20 witness: a tool invocation has ended in a failed result (HTTP 500,
\* "boom") and the process is serving, its Client set.
C20_Witness ==
  /\ phase = "serving"
  /\ client.set
  /\ transportConnected
  /\ exitCode = -1
  /\ \E s \in Slots :
       /\ Done(calls[s])
       /\ calls[s].via = "tool"
       /\ calls[s].answer.status = 500
       /\ calls[s].toolResult.isError
       /\ calls[s].toolResult.message = "boom"

\* C21: update_progress forwards its validated arguments under fixed names:
\* progress as completion_percentage, files_modified as both files_created
\* and files_modified (the two always equal), challenges as blockers,
\* time_spent as time_spent_minutes, and notes, current_step and
\* completed_steps under their own names; the request is
\* POST /tasks/{task_id}/progress.
C21_ProgressRenaming ==
  \A s \in Slots :
    (calls[s].tool = "update_progress"
       /\ Validate(calls[s].tool, calls[s].args)) =>
      LET a == calls[s].args
          r == calls[s].reqs[1]
      IN /\ Len(calls[s].reqs) >= 1
         /\ r.kind = "primary"
         /\ r.method = "POST"
         /\ r.url = <<"/tasks/", a.task_id, "/progress">>
         /\ r.body.completion_percentage = a.progress
         /\ r.body.files_created = a.files_modified
         /\ r.body.files_modified = a.files_modified
         /\ r.body.files_created = r.body.files_modified
         /\ r.body.blockers = a.challenges
         /\ r.body.time_spent_minutes = a.time_spent
         /\ r.body.notes = a.notes
         /\ r.body.current_step = a.current_step
         /\ r.body.completed_steps = a.completed_steps

\* C21 witness: update_progress with every optional argument given has
\* been forwarded.
C21_Witness ==
  \E s \in Slots :
    /\ calls[s].tool = "update_progress"
    /\ calls[s].args.files_modified = Some(<<"a.ts">>)
    /\ calls[s].args.challenges = Some(<<"flaky test">>)
    /\ calls[s].args.time_spent = Some(30)
    /\ calls[s].args.notes = Some("note")
    /\ calls[s].args.current_step = Some("step2")
    /\ calls[s].args.completed_steps = Some(<<"step1">>)
    /\ Len(calls[s].reqs) = 1
    /\ calls[s].reqs[1].body.files_created = Some(<<"a.ts">>)
    /\ calls[s].reqs[1].body.blockers = Some(<<"flaky test">>)

\* C22: complete_task sends POST /tasks/{task_id}/complete with
\* files_created and files_modified both the given files_modified list (the
\* empty list when it is omitted), completion_notes as given,
\* time_spent_minutes the given time_spent (0 when it is omitted), and
\* verification_evidence present exactly when testing_completed is true
\* (absent when it is false or omitted).
C22_CompleteBody ==
  \A s \in Slots :
    (calls[s].tool = "complete_task"
       /\ Validate(calls[s].tool, calls[s].args)) =>
      LET a == calls[s].args
          r == calls[s].reqs[1]
          files == IF a.files_modified = Absent THEN Some(<<>>)
                   ELSE a.files_modified
          minutes == IF a.time_spent = Absent THEN Some(0) ELSE a.time_spent
      IN /\ Len(calls[s].reqs) >= 1
         /\ r.kind = "primary"
         /\ r.method = "POST"
         /\ r.url = <<"/tasks/", a.task_id, "/complete">>
         /\ r.body.files_created = files
         /\ r.body.files_modified = files
         /\ r.body.completion_notes = a.completion_notes
         /\ r.body.time_spent_minutes = minutes
         /\ (r.body.verification_evidence # Absent
               <=> a.testing_completed = Some(TRUE))

\* C22 witness: complete_task with testing_completed = false and nothing
\* else optional has been forwarded with empty lists, 0 minutes and no
\* evidence.
C22_Witness ==
  \E s \in Slots :
    /\ calls[s].tool = "complete_task"
    /\ calls[s].args.testing_completed = Some(FALSE)
    /\ calls[s].args.files_modified = Absent
    /\ calls[s].args.time_spent = Absent
    /\ Len(calls[s].reqs) = 1
    /\ calls[s].reqs[1].body.files_created = Some(<<>>)
    /\ calls[s].reqs[1].body.time_spent_minutes = Some(0)
    /\ calls[s].reqs[1].body.verification_evidence = Absent

\* C23: when the primary request of startTask, updateProgress or
\* completeTask fails, that invocation posts no heartbeat: its one request
\* is the failed primary request.  A heartbeat is in an invocation's log
\* only after that invocation's own primary request has succeeded.
C23_NoHeartbeatAfterFailure ==
  \A s \in Slots :
    LET c == calls[s] IN
    HasHeartbeat(c.method) =>
      /\ PrimaryFailed(c) =>
           /\ Heartbeats(c.reqs) = {}
           /\ Len(c.reqs) = 1
           /\ c.reqs[1].kind = "primary"
           /\ c.reqs[1].state = "failed"
           /\ c.pc = "done"
      /\ c.pc = "primary" => Heartbeats(c.reqs) = {}
      /\ Heartbeats(c.reqs) # {} =>
           /\ IsOk(c.answer)
           /\ c.reqs[1].kind = "primary"
           /\ c.reqs[1].state = "ok"

\* C23 witness: completeTask ended, raised, on HTTP 404 with the failed
\* primary request as its only request.
C23_Witness ==
  \E s \in Slots :
    /\ Done(calls[s])
    /\ calls[s].method = "completeTask"
    /\ calls[s].answer.status = 404
    /\ Len(calls[s].reqs) = 1
    /\ calls[s].reqs[1].state = "failed"
    /\ calls[s].result.status = "raised"

\* C24: in run() the stdio transport is connected only after initialize()
\* has returned, hence after the Client was constructed: while initialize()
\* is awaiting, the Client is set and the transport is not connected; when
\* initialize() fails the process exits and the transport is never
\* connected.  So wherever a tool handler runs the Client is set, and no
\* invocation ends with the "Not connected" error.
C24_ToolsAfterInitialize ==
  /\ phase \in {"init_health", "init_connect"} =>
       client.set /\ ~transportConnected
  /\ phase \in {"boot", "exited"} => ~transportConnected
  /\ (entry = "cli" /\ phase = "exited") => (~client.set /\ fatal # "")
  /\ transportConnected =>
       /\ client.set
       /\ phase = "serving"
       /\ startup.health \in {"ok", "failed"}
       /\ startup.connect # "pending"
  /\ \A s \in Slots :
       calls[s].via = "tool" =>
         /\ transportConnected
         /\ client.set
         /\ calls[s].result.error # "Not connected to Buildable API"

\* C24 witness: a tool handler is awaiting its primary request, after a
\* startup that ended with its connect heartbeat answered.
C24_Witness ==
  /\ transportConnected
  /\ client.set
  /\ startup.connect = "ok"
  /\ \E s \in Slots :
       /\ calls[s].via = "tool"
       /\ calls[s].pc = "primary"
       /\ Len(calls[s].reqs) = 1

\* C25: at startup the health check is issued first, and the connect
\* heartbeat (status "connected") only after the health check succeeded:
\* when the health check fails, startup posts no connection record.
C25_HealthBeforeConnect ==
  /\ Len(startup.reqs) <= 2
  /\ Len(startup.reqs) >= 1 =>
       /\ startup.reqs[1].kind = "primary"
       /\ startup.reqs[1].method = "GET"
       /\ startup.reqs[1].url = <<"/health">>
  /\ Len(startup.reqs) = 2 =>
       /\ startup.reqs[2].kind = "heartbeat"
       /\ startup.reqs[2].body.status = "connected"
       /\ startup.reqs[2].body.current_task_id = Absent
       /\ startup.reqs[1].state = "ok"
       /\ startup.health = "ok"
  /\ startup.health \in {"pending", "failed"} =>
       /\ Len(startup.reqs) = 1
       /\ startup.connect = "none"
  /\ startup.health = "failed" => startup.reqs[1].state = "failed"
  /\ startup.connect # "none" => Len(startup.reqs) = 2

\* C25 witness: the health check failed (HTTP or network) and the server
\* is serving with that one startup request, no heartbeat.
C25_Witness ==
  /\ phase = "serving"
  /\ startup.health = "failed"
  /\ Len(startup.reqs) = 1
  /\ startup.reqs[1].state = "failed"
  /\ startup.connect = "none"
  /\ \A s \in Slots : calls[s].pc = "idle"

\* The task a tool invocation names, for the tools that name one.
OnTask(c) == c.tool \in {"start_task", "update_progress", "complete_task"}

\* C26: with several tool invocations in flight together, under every
\* interleaving of their requests and answers, each invocation posts its
\* heartbeat only after its own primary request succeeded, with its own
\* status and its own task id; its requests are built from its own
\* arguments; and it returns the answer to its own primary request, or
\* raises that answer's error.  Nothing of another invocation shows in it.
C26_Isolation ==
  \A s \in Slots :
    LET c == calls[s] IN
    (c.via = "tool" /\ Validate(c.tool, c.args)) =>
      /\ Len(c.reqs) \in {1, 2}
      /\ c.reqs[1].kind = "primary"
      /\ OnTask(c) => c.reqs[1].url[2] = c.args.task_id
      /\ \A i \in Heartbeats(c.reqs) :
           /\ i = 2
           /\ c.reqs[1].state = "ok"
           /\ IsOk(c.answer)
           /\ c.reqs[i].body.status =
                (IF c.tool = "complete_task" THEN "connected" ELSE "working")
           /\ c.reqs[i].body.current_task_id =
                (IF c.tool = "complete_task" THEN Absent ELSE c.args.task_id)
      /\ Done(c) =>
           IF IsOk(c.answer)
           THEN /\ c.result.status = "returned"
                /\ c.result.data = c.answer.body
                /\ c.toolResult.content =
                     Some(<<"JSON.stringify", c.answer.body>>)
           ELSE /\ c.result.status = "raised"
                /\ c.result.error = AmendedErrorText(c.answer)
                /\ c.toolResult.message = AmendedErrorText(c.answer)

\* C26 witness: start_task on the first task and update_progress on the
\* second are in flight together; the first has posted its heartbeat, for
\* its own task, while the second still awaits its primary request.
C26_Witness ==
  \E s1, s2 \in Slots :
    /\ s1 # s2
    /\ calls[s1].tool = "start_task"
    /\ calls[s1].args.task_id = Some(<<"t", 1>>)
    /\ calls[s1].pc = "heartbeat"
    /\ calls[s1].reqs[2].body.current_task_id = Some(<<"t", 1>>)
    /\ calls[s2].tool = "update_progress"
    /\ calls[s2].args.task_id = Some(<<"t", 2>>)
    /\ calls[s2].pc = "primary"

\* Arguments with status_update, documentation_updated and tags left out.
WithoutUntransmitted(a) ==
  [a EXCEPT !.status_update = Absent, !.documentation_updated = Absent,
            !.tags = Absent]

\* Two invocations of one tool whose arguments differ at most in
\* status_update, documentation_updated and tags.
DifferOnlyInUntransmitted(c, d) ==
  /\ c.via = "tool"
  /\ d.via = "tool"
  /\ c.tool = d.tool
  /\ WithoutUntransmitted(c.args) = WithoutUntransmitted(d.args)

\* C27: status_update of update_progress, documentation_updated of
\* complete_task and tags of create_discussion are accepted by the schemas
\* and never transmitted: two invocations that differ only in them issue
\* the same request (method, path, body), and no body has a field of these
\* names.
C27_UntransmittedArguments ==
  \A s1, s2 \in Slots :
    LET c == calls[s1]
        d == calls[s2]
    IN /\ c.via = "tool" =>
            /\ Validate(c.tool, c.args)
            /\ Len(c.reqs) = 1
            /\ DOMAIN c.reqs[1].body \cap
                 {"status_update", "documentation_updated", "tags"} = {}
       /\ DifferOnlyInUntransmitted(c, d) =>
            /\ Len(c.reqs) = Len(d.reqs)
            /\ c.reqs[1].method = d.reqs[1].method
            /\ c.reqs[1].url = d.reqs[1].url
            /\ c.reqs[1].body = d.reqs[1].body

\* C27 witness: two update_progress invocations on the first task that
\* differ in their status_update alone have issued the same request.
C27_Witness ==
  \E s1, s2 \in Slots :
    /\ calls[s1].tool = "update_progress"
    /\ calls[s2].tool = "update_progress"
    /\ calls[s1].args.status_update = Some("halfway")
    /\ calls[s2].args.status_update = Some("stuck")
    /\ calls[s1].args.notes = Absent
    /\ WithoutUntransmitted(calls[s1].args) = WithoutUntransmitted(calls[s2].args)
    /\ Len(calls[s1].reqs) = 1
    /\ Len(calls[s2].reqs) = 1
    /\ calls[s1].reqs[1].body = calls[s2].reqs[1].body

====
